---- MODULE Spec2Model ----
(***************************************************************************)
(* A model of src/StartDeck.py: the page/key configuration store, the key  *)
(* style resolver, the page controller, the key-event dispatcher and the   *)
(* main thread that opens each visual deck in turn.                        *)
(*                                                                         *)
(* Strings that are file paths are modelled as pairs <<root, name>>: a     *)
(* bare file name has root "", the path below the asset folder has root    *)
(* "Assets".  ASSETS_PATH is taken to be absolute (the __file__ of the     *)
(* main module is an absolute path), so os.path.join(ASSETS_PATH, p)       *)
(* returns p itself when p already lies below the asset folder.            *)
(*                                                                         *)
(* A key configuration is a function from field names to values whose      *)
(* DOMAIN holds exactly the fields present in the JSON object, so that     *)
(* d[f] (KeyError when f is missing) and d.get(f, default) differ as they  *)
(* do in Python.                                                           *)
(*                                                                         *)
(* Spec starts with every asset file present, so that every image can be   *)
(* rendered; RenderSpec starts with one asset file missing; FairSpec is    *)
(* Spec with the main thread running whenever it can.                      *)
(***************************************************************************)
EXTENDS Integers, Sequences, FiniteSets, TLC

VARIABLES
    streamdecks,   \* DeviceManager().enumerate(): the attached devices
    configFile,    \* the "pages" list of the JSON file on disk (never rewritten)
    missing,       \* the files below the asset folder that cannot be opened
    PAGES,         \* the in-memory pages, mutated in place
    CURRENT_PAGE,  \* the module-level current page
    dev,           \* per deck: handle open, key images, callback, reader thread
    mainpc,        \* position of the main thread
    index,         \* loop variable of the main thread's for loop
    disp,          \* reader thread: "idle", or "action" inside subprocess.run
    pending,       \* the <<deck, key>> whose dispatch is inside subprocess.run
    event,         \* the operation in progress or last completed
    log,           \* effects of the operation in progress or last completed
    outcome        \* how the last operation ended: "ok" or the exception

vars == <<streamdecks, configFile, missing, PAGES, CURRENT_PAGE, dev, mainpc, index,
          disp, pending, event, log, outcome>>

(***************************************************************************)
(* Paths and strings                                                       *)
(***************************************************************************)
EmptyPath == <<"", "">>

Bare(name) == <<"", name>>

InAssets(name) == <<"Assets", name>>

\* os.path.join with a relative ASSETS_PATH: a path already below the asset
\* folder is joined to it once more
JoinAssets_relative(p) ==
    IF p[1] = "" THEN <<"Assets", p[2]>> ELSE <<"Assets/Assets", p[2]>>

\* os.path.join(ASSETS_PATH, p) for a non-empty p
JoinAssets(p) == IF p[1] = "Assets" THEN p ELSE <<"Assets", p[2]>>

\* a or b on path strings: the empty string is falsy
OrPath(a, b) == IF a # EmptyPath THEN a ELSE b

\* a or b on label strings
OrLabel(a, b) == IF a # "" THEN a ELSE b

\* d.get(f, '') for an icon field
GetPath(d, f) == IF f \in DOMAIN d THEN d[f] ELSE EmptyPath

\* d.get(f, '') for a label field
GetLabel(d, f) == IF f \in DOMAIN d THEN d[f] ELSE ""

\* truthiness of d.get("toggle", None)
IsToggle(d) == "toggle" \in DOMAIN d /\ d["toggle"] = TRUE

\* d[f] = v on a dictionary
SetField(d, f, v) == [x \in (DOMAIN d) \cup {f} |-> IF x = f THEN v ELSE d[x]]

FontLocation == InAssets("Roboto-Regular.ttf")

\* the image of a key nothing was drawn on since the last reset
Blank == <<EmptyPath, "">>

\* render_key_image: the bitmap is determined by the icon file and the label
render_key_image(icon_filename, font_filename, label_text) ==
    <<icon_filename, label_text>>

\* the exception render_key_image ends in: Image.open (line 34) fails on an
\* icon file that cannot be opened, ImageFont.truetype (line 46) on the font
RenderError(icon_filename, font_filename) ==
    IF icon_filename \in missing THEN "FileNotFoundError"
    ELSE IF font_filename \in missing THEN "OSError"
    ELSE "none"

(***************************************************************************)
(* Configuration store                                                     *)
(***************************************************************************)
\* [p for p in PAGES if p["page_number"] == page_number]
PagesNumbered(pages, page_number) ==
    SelectSeq(pages, LAMBDA p : p.page_number = page_number)

PageExists(pages, page_number) == Len(PagesNumbered(pages, page_number)) > 0

\* index in pages of the first page with that number
FirstPage(pages, page_number) ==
    CHOOSE i \in 1..Len(pages) :
        /\ pages[i].page_number = page_number
        /\ \A j \in 1..(i - 1) : pages[j].page_number # page_number

\* index in keys of the first key configuration of that button
FirstKey(keys, key) ==
    CHOOSE i \in 1..Len(keys) :
        /\ keys[i]["button"] = key
        /\ \A j \in 1..(i - 1) : keys[j]["button"] # key

\* get_key_config taking matching_key_configs[0] without the test of line 141
get_key_config_unguarded(pages, page_number, key) ==
    LET page == PagesNumbered(pages, page_number) IN
    IF Len(page) = 0
    THEN [err |-> "IndexError", found |-> FALSE]
    ELSE LET matching == SelectSeq(page[1].keys, LAMBDA k : k["button"] = key) IN
         IF Len(matching) > 0
         THEN [err |-> "none", found |-> TRUE, cfg |-> matching[1]]
         ELSE [err |-> "IndexError", found |-> FALSE]

\* get_key_config: err "IndexError" when the page is absent; found = FALSE
\* when the function returns None
get_key_config(pages, page_number, key) ==
    LET page == PagesNumbered(pages, page_number) IN
    IF Len(page) = 0
    THEN [err |-> "IndexError", found |-> FALSE]
    ELSE LET matching == SelectSeq(page[1].keys, LAMBDA k : k["button"] = key) IN
         IF Len(matching) > 0
         THEN [err |-> "none", found |-> TRUE, cfg |-> matching[1]]
         ELSE [err |-> "none", found |-> FALSE]

\* set_key_config_value on a page that exists
set_key_config_value(pages, page_number, key, config_item, value) ==
    LET current == get_key_config(pages, page_number, key) IN
    IF current.err = "none" /\ current.found
    THEN LET i == FirstPage(pages, page_number)
             j == FirstKey(pages[i].keys, key)
         IN [pages EXCEPT ![i].keys[j] = SetField(@, config_item, value)]
    ELSE pages

(***************************************************************************)
(* Key style resolver                                                      *)
(***************************************************************************)
\* the fields a pressed toggle key reads with d[f]
ToggleReads == {"primary_icon", "secondary_icon", "active_icon", "active_label"}

\* the comparison of line 100 without its second disjunct
ToggleSlot_bare_only(key_config) ==
    IF key_config["active_icon"] = key_config["primary_icon"]
    THEN "secondary"
    ELSE "primary"

\* lines 99-105: which slot a pressed toggle key flips to
ToggleSlot(key_config) ==
    IF \/ key_config["active_icon"] = key_config["primary_icon"]
       \/ key_config["active_icon"] = JoinAssets(key_config["primary_icon"])
    THEN "secondary"
    ELSE "primary"

\* lines 85-112 with an unpressed toggle key drawn from its primary slot
SlotOf_toggle_resets(key_config, state) ==
    IF IsToggle(key_config)
    THEN IF state THEN ToggleSlot(key_config) ELSE "primary"
    ELSE IF state THEN "active" ELSE "primary"

\* lines 106-112 with the two branches of the non-toggle key exchanged
SlotOf_swapped(key_config, state) ==
    IF IsToggle(key_config)
    THEN IF state THEN ToggleSlot(key_config) ELSE "active"
    ELSE IF state THEN "primary" ELSE "active"

\* lines 85-112: the slot ("primary", "secondary" or "active") the style is
\* read from; icon_type is the slot's icon field, label_type its label field
SlotOf(key_config, state) ==
    IF IsToggle(key_config)
    THEN IF state THEN ToggleSlot(key_config) ELSE "active"
    ELSE IF state THEN "active" ELSE "primary"

IconType(slot) ==
    CASE slot = "primary" -> "primary_icon"
      [] slot = "secondary" -> "secondary_icon"
      [] OTHER -> "active_icon"

LabelType(slot) ==
    CASE slot = "primary" -> "primary_label"
      [] slot = "secondary" -> "secondary_label"
      [] OTHER -> "active_label"

\* line 118
ResolveIcon(key_config, slot) ==
    OrPath(GetPath(key_config, IconType(slot)), GetPath(key_config, "primary_icon"))

\* line 119 without the fallback to the primary label
ResolveLabel_no_fallback(key_config, slot) ==
    GetLabel(key_config, LabelType(slot))

\* line 119
ResolveLabel(key_config, slot) ==
    OrLabel(GetLabel(key_config, LabelType(slot)), GetLabel(key_config, "primary_label"))

\* lines 121-123
IconLocation(icon) == IF icon # EmptyPath THEN JoinAssets(icon) ELSE EmptyPath

\* get_key_style: empty = TRUE stands for the returned {}
get_key_style(pages, page_number, key, state) ==
    LET got == get_key_config(pages, page_number, key) IN
    IF got.err # "none" THEN [err |-> got.err, empty |-> TRUE]
    ELSE IF ~got.found THEN [err |-> "none", empty |-> TRUE]
    ELSE LET key_config == got.cfg IN
         IF IsToggle(key_config) /\ state /\ ~(ToggleReads \subseteq DOMAIN key_config)
         THEN [err |-> "KeyError", empty |-> TRUE]
         ELSE LET slot == SlotOf(key_config, state) IN
              [err |-> "none", empty |-> FALSE,
               name |-> <<"Button", key>>,
               icon |-> IconLocation(ResolveIcon(key_config, slot)),
               font |-> FontLocation,
               label |-> ResolveLabel(key_config, slot)]

\* get_current_key_style: empty = TRUE stands for the returned {}
get_current_key_style(pages, page_number, key, state) ==
    LET got == get_key_config(pages, page_number, key) IN
    IF got.err # "none" THEN [err |-> got.err, empty |-> TRUE]
    ELSE IF ~got.found THEN [err |-> "none", empty |-> TRUE]
    ELSE IF ~({"active_icon", "active_label"} \subseteq DOMAIN got.cfg)
    THEN [err |-> "KeyError", empty |-> TRUE]
    ELSE [err |-> "none", empty |-> FALSE,
          button |-> got.cfg["button"],
          icon |-> got.cfg["active_icon"],
          label |-> got.cfg["active_label"]]

(***************************************************************************)
(* The device handle.  An operation works on a record m that holds the     *)
(* globals and the devices while the operation runs: PAGES, CURRENT_PAGE,  *)
(* dev, the log of effects, err (the exception raised, "none" when none)   *)
(* and blocked (the thread is inside subprocess.run).                      *)
(***************************************************************************)
NoKey == 0 - 1

\* the value of a singleton set: Only({ F(x) : x \in {e} }) evaluates e once
\* and then F on its value
Only(S) == CHOOSE x \in S : TRUE

Effect(op, d, key, image, cmd, locked) ==
    [op |-> op, deck |-> d, key |-> key, image |-> image, cmd |-> cmd,
     locked |-> locked]

Raise(m, e) == [m EXCEPT !.err = e]

\* deck.reset(): every key image is cleared
deck_reset(m, d, locked) ==
    [m EXCEPT !.dev[d].images = [k \in DOMAIN @ |-> Blank],
              !.log = Append(@, Effect("reset", d, NoKey, Blank, "", locked))]

\* deck.set_key_image(key, image)
deck_set_key_image(m, d, key, image, locked) ==
    [m EXCEPT !.dev[d].images[key] = image,
              !.log = Append(@, Effect("set_key_image", d, key, image, "", locked))]

\* deck.close(): the handle is released and the reader thread stops
deck_close(m, d, locked) ==
    [m EXCEPT !.dev[d].open = FALSE,
              !.dev[d].thread = FALSE,
              !.log = Append(@, Effect("close", d, NoKey, Blank, "", locked))]

\* the action started without waiting for its exit
subprocess_run_detached(m, d, key, action) ==
    [m EXCEPT !.log = Append(@, Effect("action", d, key, Blank, action, FALSE))]

\* subprocess.run(action, shell=True): the calling thread waits for the exit
subprocess_run(m, d, key, action) ==
    [m EXCEPT !.blocked = TRUE,
              !.log = Append(@, Effect("action", d, key, Blank, action, FALSE))]

(***************************************************************************)
(* Page controller and dispatcher                                          *)
(***************************************************************************)
\* update_key_image passing over a key whose image cannot be rendered
update_key_image_skipping(m, d, page_number, key, state) ==
    IF m.err # "none" THEN m
    ELSE LET key_style == get_key_style(m.PAGES, page_number, key, state) IN
         IF key_style.err # "none" THEN Raise(m, key_style.err)
         ELSE IF key_style.empty THEN m
         ELSE IF key_style.icon = EmptyPath THEN m
         ELSE IF RenderError(key_style.icon, key_style.font) # "none" THEN m
         ELSE LET image == render_key_image(key_style.icon, key_style.font,
                                            key_style.label)
                  m1 == deck_set_key_image(m, d, key, image, TRUE)
                  p1 == set_key_config_value(m1.PAGES, page_number, key,
                                             "active_icon", key_style.icon)
                  p2 == set_key_config_value(p1, page_number, key,
                                             "active_label", key_style.label)
              IN [m1 EXCEPT !.PAGES = p2]

\* update_key_image
update_key_image(m, d, page_number, key, state) ==
    IF m.err # "none" THEN m
    ELSE LET key_style == get_key_style(m.PAGES, page_number, key, state) IN
         IF key_style.err # "none" THEN Raise(m, key_style.err)
         ELSE IF key_style.empty THEN m
         ELSE IF key_style.icon = EmptyPath THEN m
         ELSE IF RenderError(key_style.icon, key_style.font) # "none"
         THEN Raise(m, RenderError(key_style.icon, key_style.font))
         ELSE LET image == render_key_image(key_style.icon, key_style.font,
                                            key_style.label)
                  m1 == deck_set_key_image(m, d, key, image, TRUE)
                  p1 == set_key_config_value(m1.PAGES, page_number, key,
                                             "active_icon", key_style.icon)
                  p2 == set_key_config_value(p1, page_number, key,
                                             "active_label", key_style.label)
              IN [m1 EXCEPT !.PAGES = p2]

\* the loop of lines 206-207 drawing every key in its pressed state
RECURSIVE UpdateKeys_pressed(_, _, _, _, _)
UpdateKeys_pressed(m, d, page_number, buttons, i) ==
    IF i > Len(buttons) THEN m
    ELSE Only({ UpdateKeys_pressed(m1, d, page_number, buttons, i + 1) :
                m1 \in { update_key_image(m, d, page_number, buttons[i], TRUE) } })

\* lines 206-207: the loop over page_layout["keys"], from its i-th key on
RECURSIVE UpdateKeys(_, _, _, _, _)
UpdateKeys(m, d, page_number, buttons, i) ==
    IF i > Len(buttons) THEN m
    ELSE Only({ UpdateKeys(m1, d, page_number, buttons, i + 1) :
                m1 \in { update_key_image(m, d, page_number, buttons[i], FALSE) } })

ButtonsOf(page_layout) ==
    [i \in 1..Len(page_layout.keys) |-> page_layout.keys[i]["button"]]

\* load_page returning quietly when no page has the number
load_page_silent(m, d, page_number) ==
    IF m.err # "none" THEN m
    ELSE IF ~PageExists(m.PAGES, page_number) THEN m
    ELSE Only({ Only({ IF m2.err # "none" THEN m2
                       ELSE [m2 EXCEPT !.CURRENT_PAGE = page_layout.page_number] :
                       m2 \in { UpdateKeys(deck_reset(m, d, FALSE), d,
                                           page_layout.page_number,
                                           ButtonsOf(page_layout), 1) } }) :
                page_layout \in { PagesNumbered(m.PAGES, page_number)[1] } })

\* load_page
load_page(m, d, page_number) ==
    IF m.err # "none" THEN m
    ELSE IF ~PageExists(m.PAGES, page_number) THEN Raise(m, "IndexError")
    ELSE Only({ Only({ IF m2.err # "none" THEN m2
                       ELSE [m2 EXCEPT !.CURRENT_PAGE = page_layout.page_number] :
                       m2 \in { UpdateKeys(deck_reset(m, d, FALSE), d,
                                           page_layout.page_number,
                                           ButtonsOf(page_layout), 1) } }) :
                page_layout \in { PagesNumbered(m.PAGES, page_number)[1] } })

\* truthiness of key_config.get("display_page", None)
HasDisplayPage(key_config) ==
    "display_page" \in DOMAIN key_config /\ key_config["display_page"] # 0

\* truthiness of key_config.get("action", None)
HasAction(key_config) ==
    "action" \in DOMAIN key_config /\ key_config["action"] # ""

\* lines 185-191
Navigate(m, d, key_config) ==
    IF HasDisplayPage(key_config)
    THEN Only({ IF m1.err # "none" THEN m1
                ELSE [m1 EXCEPT !.CURRENT_PAGE = key_config["display_page"]] :
                m1 \in { load_page(m, d, key_config["display_page"]) } })
    ELSE m

\* lines 193-196
RunAction(m, d, key, key_config) ==
    IF m.err # "none" THEN m
    ELSE IF HasAction(key_config)
    THEN subprocess_run(m, d, key, key_config["action"])
    ELSE m

\* perform_key_actions running the action before the page switch
perform_key_actions_action_first(m, d, page_number, key, state) ==
    IF m.err # "none" THEN m
    ELSE IF ~state THEN m
    ELSE LET got == get_key_config(m.PAGES, page_number, key) IN
         IF got.err # "none" THEN Raise(m, got.err)
         ELSE IF ~got.found THEN m
         ELSE Only({ Navigate(m1, d, got.cfg) :
                     m1 \in { RunAction(m, d, key, got.cfg) } })

\* perform_key_actions
perform_key_actions(m, d, page_number, key, state) ==
    IF m.err # "none" THEN m
    ELSE IF ~state THEN m
    ELSE LET got == get_key_config(m.PAGES, page_number, key) IN
         IF got.err # "none" THEN Raise(m, got.err)
         ELSE IF ~got.found THEN m
         ELSE Only({ RunAction(m1, d, key, got.cfg) :
                     m1 \in { Navigate(m, d, got.cfg) } })

ExitButton == 14

\* lines 229-240: the exit check that ends key_change_callback
ExitCheck(m, d, key, state) ==
    IF m.err # "none" THEN m
    ELSE LET key_style == get_current_key_style(m.PAGES, m.CURRENT_PAGE, key, state) IN
         IF key_style.err # "none" THEN Raise(m, key_style.err)
         ELSE IF ~key_style.empty /\ key_style.button = ExitButton
         THEN deck_close(deck_reset(m, d, TRUE), d, TRUE)
         ELSE m

\* key_change_callback up to the return of perform_key_actions, or up to
\* the call of subprocess.run when the key has an action
DispatchPress(m, d, key) ==
    Only({ Only({ IF m2.blocked THEN m2 ELSE ExitCheck(m2, d, key, TRUE) :
                  m2 \in { perform_key_actions(m1, d, m1.CURRENT_PAGE, key, TRUE) } }) :
           m1 \in { update_key_image(m, d, m.CURRENT_PAGE, key, TRUE) } })

\* key_change_callback without the test of line 220
key_change_callback_any_state(m, d, key, state) == DispatchPress(m, d, key)

\* key_change_callback: line 220 lets only a press through
key_change_callback(m, d, key, state) ==
    IF state THEN DispatchPress(m, d, key) ELSE m

(***************************************************************************)
(* Configurations and devices the model starts from                        *)
(***************************************************************************)
Key(button, icon, label) ==
    [button |-> button, primary_icon |-> icon, primary_label |-> label]

Active(icon, label) == [active_icon |-> icon, active_label |-> label]

Secondary(icon, label) ==
    [toggle |-> TRUE, secondary_icon |-> icon, secondary_label |-> label]

\* the toggle key in the form of the configuration shipped as an example
PlainToggle ==
    Key(1, Bare("on.png"), "ON") @@ Secondary(Bare("off.png"), "OFF")
        @@ Active(Bare("on.png"), "ON")

\* the toggle key of page 1, in the forms a configuration file can give it
ToggleVariants ==
    { PlainToggle,
      Key(1, Bare("on.png"), "ON") @@ Secondary(Bare("off.png"), "OFF")
          @@ Active(Bare("off.png"), "OFF"),
      Key(1, InAssets("on.png"), "ON") @@ Secondary(InAssets("off.png"), "OFF")
          @@ Active(InAssets("on.png"), "ON"),
      Key(1, Bare("on.png"), "ON") @@ Secondary(Bare("off.png"), "OFF") }

Page1Keys(toggle) ==
    << Key(0, Bare("a.png"), "A") @@ Active(Bare("a.png"), "A"),
       toggle,
       Key(2, Bare("next.png"), "") @@ [display_page |-> 2],
       Key(3, Bare("run.png"), "Run") @@ [display_page |-> 2, action |-> "cmd"],
       Key(4, Bare("lost.png"), "Lost") @@ [display_page |-> 9],
       Key(5, Bare("zero.png"), "Zero") @@ [display_page |-> 0],
       Key(6, Bare("m.png"), "Menu") @@ Secondary(Bare("n.png"), "")
           @@ [display_page |-> 2],
       Key(7, Bare("sh.png"), "Sh") @@ [action |-> "cmd"],
       Key(8, EmptyPath, "X"),
       Key(9, Bare("b.png"), "B") @@ Active(Bare("c.png"), ""),
       Key(14, Bare("exit.png"), "Exit") >>

Page2Keys(exit) ==
    << Key(0, Bare("back.png"), "Back") @@ [display_page |-> 1],
       Key(1, Bare("p.png"), "") @@ Secondary(Bare("q.png"), "Q"),
       Key(7, Bare("x.png"), "Quit") @@ [action |-> "cmd"] >>
    \o (IF exit THEN << Key(14, Bare("exit.png"), "Exit") @@ [action |-> "bye"] >>
        ELSE << >>)

Page0Keys ==
    << Key(0, Bare("back.png"), "Back") @@ [display_page |-> 1],
       Key(14, Bare("exit.png"), "Exit") @@ [display_page |-> 9, action |-> "cmd"] >>

Page(page_number, home, keys) ==
    [page_number |-> page_number, home_page |-> (page_number = home), keys |-> keys]

\* the pages a configuration file holds: home is the number of the page
\* marked home_page (no page is marked when no page has that number)
Config(toggle, exit, zero, home) ==
    << Page(1, home, Page1Keys(toggle)), Page(2, home, Page2Keys(exit)) >>
    \o (IF zero THEN << Page(0, home, Page0Keys) >> ELSE << >>)

Configs ==
    { Config(t, TRUE, TRUE, 1) : t \in ToggleVariants }
    \cup { Config(PlainToggle, FALSE, TRUE, 1), Config(PlainToggle, TRUE, FALSE, 1),
           Config(PlainToggle, TRUE, TRUE, 2), Config(PlainToggle, FALSE, TRUE, 0),
           Config(PlainToggle, TRUE, FALSE, 0) }

\* the number of keys of the decks of the model
KeyCount == 15

Visual == [visual |-> TRUE, key_count |-> KeyCount]

NonVisual == [visual |-> FALSE, key_count |-> KeyCount]

DeckLists == { <<Visual>>, <<NonVisual, Visual>>, <<Visual, Visual>> }

\* the devices attached and the configuration file of one run
Setups ==
    ({ <<Visual>> } \X Configs)
    \cup (DeckLists \X { Config(PlainToggle, FALSE, FALSE, 1) })

Decks == 1..Len(streamdecks)

Keys(d) == 0..(streamdecks[d].key_count - 1)

NoEvent == [kind |-> "none", deck |-> 0, key |-> NoKey, page |-> 0]

Event(kind, d, key) == [kind |-> kind, deck |-> d, key |-> key, page |-> CURRENT_PAGE]

\* the state after construction, apart from the files that are missing
Construction ==
    /\ \E setup \in Setups : streamdecks = setup[1] /\ configFile = setup[2]
    /\ PAGES = << >>
    /\ CURRENT_PAGE = 1
    /\ dev = [d \in Decks |->
                [open |-> FALSE, thread |-> FALSE, callback |-> FALSE,
                 images |-> [k \in Keys(d) |-> Blank]]]
    /\ mainpc = "loop"
    /\ index = 1
    /\ disp = "idle"
    /\ pending = << >>
    /\ event = NoEvent
    /\ log = << >>
    /\ outcome = "none"

\* every file the configuration names can be opened
Init == Construction /\ missing = {}

\* the sets of missing files: an icon a press draws, an icon in the middle
\* of page 2, an icon of page 1, the font
MissingSets ==
    { {InAssets("off.png")}, {InAssets("p.png")}, {InAssets("a.png")},
      {FontLocation} }

\* some file the configuration names cannot be opened
RenderInit == Construction /\ missing \in MissingSets

\* the globals and devices an operation starts from
Start ==
    [PAGES |-> PAGES, CURRENT_PAGE |-> CURRENT_PAGE, dev |-> dev, log |-> << >>,
     err |-> "none", blocked |-> FALSE]

Outcome(m) == IF m.err = "none" THEN "ok" ELSE m.err

(***************************************************************************)
(* The main thread                                                         *)
(***************************************************************************)
\* line 250-251: a deck without screens is passed over
SkipDeck ==
    /\ mainpc = "loop" /\ index <= Len(streamdecks)
    /\ ~streamdecks[index].visual
    /\ index' = index + 1
    /\ event' = Event("skip", index, NoKey)
    /\ log' = << >>
    /\ outcome' = "ok"
    /\ UNCHANGED <<streamdecks, configFile, missing, PAGES, CURRENT_PAGE, dev, mainpc,
                   disp, pending>>

\* lines 253-261 with the callback of line 275 registered as the deck is opened
OpenDeck_registering ==
    /\ mainpc = "loop" /\ index <= Len(streamdecks)
    /\ streamdecks[index].visual
    /\ \E m \in { deck_reset([Start EXCEPT !.dev[index].open = TRUE,
                                           !.dev[index].thread = TRUE,
                                           !.dev[index].callback = TRUE],
                            index, FALSE) } :
          /\ dev' = m.dev
          /\ log' = m.log
    /\ mainpc' = "config"
    /\ event' = Event("open", index, NoKey)
    /\ outcome' = "ok"
    /\ UNCHANGED <<streamdecks, configFile, missing, PAGES, CURRENT_PAGE, index, disp, pending>>

\* lines 253-261: deck.open() starts the reader thread; deck.reset()
OpenDeck ==
    /\ mainpc = "loop" /\ index <= Len(streamdecks)
    /\ streamdecks[index].visual
    /\ \E m \in { deck_reset([Start EXCEPT !.dev[index].open = TRUE,
                                           !.dev[index].thread = TRUE],
                            index, FALSE) } :
          /\ dev' = m.dev
          /\ log' = m.log
    /\ mainpc' = "config"
    /\ event' = Event("open", index, NoKey)
    /\ outcome' = "ok"
    /\ UNCHANGED <<streamdecks, configFile, missing, PAGES, CURRENT_PAGE, index, disp, pending>>

\* [p for p in PAGES if p["home_page"] == True]
HomePages(pages) == SelectSeq(pages, LAMBDA p : p.home_page = TRUE)

\* lines 268-272: the configuration is read and the home page loaded; an
\* exception ends the main thread and with it the process
LoadConfig ==
    /\ mainpc = "config"
    /\ \E m0 \in { [Start EXCEPT !.PAGES = configFile] } :
       \E m \in { IF Len(HomePages(m0.PAGES)) = 0 THEN Raise(m0, "IndexError")
                  ELSE load_page(m0, index, HomePages(m0.PAGES)[1].page_number) } :
          /\ PAGES' = m.PAGES
          /\ CURRENT_PAGE' = m.CURRENT_PAGE
          /\ dev' = m.dev
          /\ log' = m.log
          /\ outcome' = Outcome(m)
          /\ mainpc' = IF m.err = "none" THEN "register" ELSE "crashed"
    /\ event' = Event("load", index, NoKey)
    /\ UNCHANGED <<streamdecks, configFile, missing, index, disp, pending>>

\* line 275: deck.set_key_callback(key_change_callback)
RegisterCallback ==
    /\ mainpc = "register"
    /\ dev' = [dev EXCEPT ![index].callback = TRUE]
    /\ mainpc' = "join"
    /\ event' = Event("register", index, NoKey)
    /\ log' = << >>
    /\ outcome' = "ok"
    /\ UNCHANGED <<streamdecks, configFile, missing, PAGES, CURRENT_PAGE, index, disp, pending>>

\* lines 279-283: t.join() returns once every other thread has ended
Join ==
    /\ mainpc = "join"
    /\ \A d \in Decks : ~dev[d].thread
    /\ mainpc' = "loop"
    /\ index' = index + 1
    /\ event' = Event("join", index, NoKey)
    /\ log' = << >>
    /\ outcome' = "ok"
    /\ UNCHANGED <<streamdecks, configFile, missing, PAGES, CURRENT_PAGE, dev, disp, pending>>

\* the for loop is exhausted and the script ends
Finish ==
    /\ mainpc = "loop" /\ index > Len(streamdecks)
    /\ mainpc' = "done"
    /\ event' = Event("finish", 0, NoKey)
    /\ log' = << >>
    /\ outcome' = "ok"
    /\ UNCHANGED <<streamdecks, configFile, missing, PAGES, CURRENT_PAGE, dev, index,
                   disp, pending>>

(***************************************************************************)
(* The reader thread of an open deck                                       *)
(***************************************************************************)
\* the process is running and the reader of deck d is between two events
Listening(d) ==
    /\ mainpc \notin {"crashed", "done"}
    /\ dev[d].open /\ dev[d].thread
    /\ disp = "idle"

\* a key changes state while no callback is registered: nothing is called
DropEvent(d, key) ==
    /\ Listening(d) /\ ~dev[d].callback
    /\ event' = Event("dropped", d, NoKey)
    /\ log' = << >>
    /\ outcome' = "ok"
    /\ UNCHANGED <<streamdecks, configFile, missing, PAGES, CURRENT_PAGE, dev, mainpc,
                   index, disp, pending>>

\* the end of a call of key_change_callback: an exception ends the reader
Return(m, d) ==
    /\ PAGES' = m.PAGES
    /\ CURRENT_PAGE' = m.CURRENT_PAGE
    /\ dev' = IF m.err = "none" THEN m.dev ELSE [m.dev EXCEPT ![d].thread = FALSE]
    /\ log' = m.log
    /\ outcome' = Outcome(m)

\* key_change_callback(deck, key, True)
KeyPress(d, key) ==
    /\ Listening(d) /\ dev[d].callback
    /\ event' = Event("press", d, key)
    /\ \E m0 \in { Start } : \E m \in { key_change_callback(m0, d, key, TRUE) } :
       IF m.blocked
       THEN /\ PAGES' = m.PAGES
            /\ CURRENT_PAGE' = m.CURRENT_PAGE
            /\ dev' = m.dev
            /\ log' = m.log
            /\ outcome' = "running"
            /\ disp' = "action"
            /\ pending' = <<d, key>>
       ELSE /\ Return(m, d)
            /\ UNCHANGED <<disp, pending>>
    /\ UNCHANGED <<streamdecks, configFile, missing, mainpc, index>>

\* subprocess.run returns and key_change_callback goes on to its exit check
ActionExit ==
    /\ disp = "action"
    /\ mainpc \notin {"crashed", "done"}
    /\ \E m0 \in { [Start EXCEPT !.log = log] } :
       \E m \in { ExitCheck(m0, pending[1], pending[2], TRUE) } :
          Return(m, pending[1])
    /\ disp' = "idle"
    /\ pending' = << >>
    /\ UNCHANGED <<streamdecks, configFile, missing, mainpc, index, event>>

\* key_change_callback(deck, key, False)
KeyRelease(d, key) ==
    /\ Listening(d) /\ dev[d].callback
    /\ event' = Event("release", d, NoKey)
    /\ \E m0 \in { Start } : \E m \in { key_change_callback(m0, d, key, FALSE) } :
          Return(m, d)
    /\ UNCHANGED <<streamdecks, configFile, missing, mainpc, index, disp, pending>>

Next ==
    \/ SkipDeck
    \/ OpenDeck
    \/ LoadConfig
    \/ RegisterCallback
    \/ Join
    \/ Finish
    \/ \E d \in Decks : \E key \in Keys(d) : DropEvent(d, key)
    \/ \E d \in Decks : \E key \in Keys(d) : KeyPress(d, key)
    \/ \E d \in Decks : \E key \in Keys(d) : KeyRelease(d, key)
    \/ ActionExit

Spec == Init /\ [][Next]_vars

RenderSpec == RenderInit /\ [][Next]_vars

\* the main thread goes on whenever it is not blocked in t.join(); key events
\* and the exit of a shell action may never come.  LoadConfig is enabled in
\* every state with mainpc = "config" and always leaves it, so weak fairness
\* of LoadConfig is stated as: the main thread is not at "config" forever
FairSpec ==
    /\ Spec
    /\ WF_vars(SkipDeck) /\ WF_vars(OpenDeck)
    /\ []<>(mainpc # "config")
    /\ WF_vars(RegisterCallback) /\ WF_vars(Join) /\ WF_vars(Finish)

(***************************************************************************)
(* Properties                                                              *)
(***************************************************************************)
\* the step is the start of the dispatch of a press of key on the current page
PressStep(key) ==
    /\ disp = "idle"
    /\ event'.kind = "press"
    /\ event'.key = key

\* the dispatch of the press named by event has run to its end
PressDone == event.kind = "press" /\ disp = "idle"

AllKeys == 0..(KeyCount - 1)

\* the configuration of button key on page page_number, when there is one
Configured(pages, page_number, key) ==
    /\ PageExists(pages, page_number)
    /\ get_key_config(pages, page_number, key).found

KeyConfig(pages, page_number, key) == get_key_config(pages, page_number, key).cfg

\* the stored active icon is the primary icon, as given or below the assets
ActiveIsPrimary(key_config) ==
    \/ key_config["active_icon"] = key_config["primary_icon"]
    \/ key_config["active_icon"] = <<"Assets", key_config["primary_icon"][2]>>

\* the file an icon field names, below the asset folder
Located(icon) == <<"Assets", icon[2]>>

\* the key has a secondary icon, which is not its primary icon
DistinctSecondary(key_config) ==
    /\ GetPath(key_config, "secondary_icon") # EmptyPath
    /\ Located(key_config["secondary_icon"]) # Located(key_config["primary_icon"])

StoredStyle(key_config) == <<key_config["active_icon"], key_config["active_label"]>>

\* the positions of the log that hold an effect of one of the kinds ops
Positions(ops) == { i \in 1..Len(log) : log[i].op \in ops }

DeviceWrites == {"set_key_image", "reset", "close"}

\* the image pushed to a key by the page load whose effects are effects
PushedAfterReset(effects, key, image) ==
    /\ Len(effects) > 0
    /\ effects[1].op = "reset"
    /\ \E i \in 2..Len(effects) :
          /\ effects[i].op = "set_key_image"
          /\ effects[i].key = key
          /\ effects[i].image = image

\* C1: a press of a toggle key (with a secondary icon other than its primary
\* icon) whose stored active icon is its primary icon, bare or below the asset
\* folder, draws the secondary icon and stores it, with the secondary label
\* where the key has one, as the active icon and label; a press of that key
\* when the stored active icon is not the primary icon draws and stores the
\* primary icon and label: presses alternate primary, secondary, primary.
C1_ToggleAlternates ==
    [][ \A key \in AllKeys :
          (/\ PressStep(key)
           /\ Configured(PAGES, CURRENT_PAGE, key)
           /\ IsToggle(KeyConfig(PAGES, CURRENT_PAGE, key))
           /\ DistinctSecondary(KeyConfig(PAGES, CURRENT_PAGE, key))) =>
          LET old == KeyConfig(PAGES, CURRENT_PAGE, key)
              new == KeyConfig(PAGES', CURRENT_PAGE, key)
              secondary == <<Located(old["secondary_icon"]),
                             IF GetLabel(old, "secondary_label") # ""
                             THEN old["secondary_label"] ELSE old["primary_label"]>>
              primary == <<Located(old["primary_icon"]), old["primary_label"]>>
          IN /\ ActiveIsPrimary(old) =>
                   /\ StoredStyle(new) = secondary
                   /\ log'[1] = Effect("set_key_image", event'.deck, key, secondary, "", TRUE)
                   /\ ~ActiveIsPrimary(new)
             /\ ~ActiveIsPrimary(old) =>
                   /\ StoredStyle(new) = primary
                   /\ log'[1] = Effect("set_key_image", event'.deck, key, primary, "", TRUE)
                   /\ ActiveIsPrimary(new)
      ]_vars

\* C1 witness: the toggle key of page 1 was pressed while it showed its
\* primary icon and now shows and stores its secondary icon and label
C1_Witness ==
    /\ PressDone /\ event.key = 1 /\ event.page = 1 /\ outcome = "ok"
    /\ StoredStyle(KeyConfig(PAGES, 1, 1)) = <<InAssets("off.png"), "OFF">>
    /\ dev[event.deck].images[1] = <<InAssets("off.png"), "OFF">>

\* every key of page number that has an icon was pushed after a reset, drawn
\* in the unpressed style it had in pages, and is what its key now shows
Rendered(pages, number, effects, images) ==
    \A i \in 1..Len(PagesNumbered(pages, number)[1].keys) :
        LET key_config == PagesNumbered(pages, number)[1].keys[i]
            style == get_key_style(pages, number, key_config["button"], FALSE)
        IN style.icon # EmptyPath =>
              /\ PushedAfterReset(effects, key_config["button"],
                                  <<style.icon, style.label>>)
              /\ images[key_config["button"]] = <<style.icon, style.label>>

\* the effects of the log from the first reset that was made without the lock
FromNavigation(effects) ==
    IF \E i \in 1..Len(effects) : effects[i].op = "reset" /\ ~effects[i].locked
    THEN SubSeq(effects,
                CHOOSE i \in 1..Len(effects) :
                    /\ effects[i].op = "reset" /\ ~effects[i].locked
                    /\ \A j \in 1..(i - 1) : ~(effects[j].op = "reset" /\ ~effects[j].locked),
                Len(effects))
    ELSE << >>

\* a press of key on the current page switched to page number and drew it
NavigatedTo(key, number) ==
    /\ CURRENT_PAGE' = number
    /\ LET effects == FromNavigation(log') IN
       Rendered(IF Configured(PAGES, CURRENT_PAGE, key)
                   /\ get_key_style(PAGES, CURRENT_PAGE, key, TRUE).icon # EmptyPath
                THEN set_key_config_value(
                         set_key_config_value(PAGES, CURRENT_PAGE, key, "active_icon",
                             get_key_style(PAGES, CURRENT_PAGE, key, TRUE).icon),
                         CURRENT_PAGE, key, "active_label",
                         get_key_style(PAGES, CURRENT_PAGE, key, TRUE).label)
                ELSE PAGES,
                number, effects, dev'[event'.deck].images)

\* C2: a press of a key whose configuration has a display_page N, page N
\* being in the configuration, makes N the current page and draws page N:
\* the device is reset and every key of page N is pushed in its unpressed
\* style.
C2_DisplayPageNavigates ==
    [][ \A key \in AllKeys :
          (/\ PressStep(key)
           /\ Configured(PAGES, CURRENT_PAGE, key)
           /\ "display_page" \in DOMAIN KeyConfig(PAGES, CURRENT_PAGE, key)
           /\ PageExists(PAGES, KeyConfig(PAGES, CURRENT_PAGE, key)["display_page"])) =>
          NavigatedTo(key, KeyConfig(PAGES, CURRENT_PAGE, key)["display_page"])
      ]_vars

\* C2 for the targets other than page 0
C2_NonZeroPageNavigates ==
    [][ \A key \in AllKeys :
          (/\ PressStep(key)
           /\ Configured(PAGES, CURRENT_PAGE, key)
           /\ "display_page" \in DOMAIN KeyConfig(PAGES, CURRENT_PAGE, key)
           /\ KeyConfig(PAGES, CURRENT_PAGE, key)["display_page"] # 0
           /\ PageExists(PAGES, KeyConfig(PAGES, CURRENT_PAGE, key)["display_page"])) =>
          NavigatedTo(key, KeyConfig(PAGES, CURRENT_PAGE, key)["display_page"])
      ]_vars

\* the keys of page number hold the same fields in the step's two states
PageUnchanged(number) == PagesNumbered(PAGES', number) = PagesNumbered(PAGES, number)

\* C3: a press of a key that has a display_page and no action leaves the
\* stored active icon and label of every key of the page it was pressed on,
\* the pressed key included, as they were.
C3_NavigationKeepsPage ==
    [][ \A key \in AllKeys :
          (/\ PressStep(key)
           /\ Configured(PAGES, CURRENT_PAGE, key)
           /\ "display_page" \in DOMAIN KeyConfig(PAGES, CURRENT_PAGE, key)
           /\ "action" \notin DOMAIN KeyConfig(PAGES, CURRENT_PAGE, key)) =>
          PageUnchanged(CURRENT_PAGE)
      ]_vars

\* C3 as amended: a press of a key without toggle flag that has a
\* display_page and no action leaves the stored active icon and label of
\* every key of the page it was pressed on, the pressed key included, as
\* they were.
C3_PlainNavigationKeepsPage ==
    [][ \A key \in AllKeys :
          (/\ PressStep(key)
           /\ Configured(PAGES, CURRENT_PAGE, key)
           /\ ~IsToggle(KeyConfig(PAGES, CURRENT_PAGE, key))
           /\ "display_page" \in DOMAIN KeyConfig(PAGES, CURRENT_PAGE, key)
           /\ "action" \notin DOMAIN KeyConfig(PAGES, CURRENT_PAGE, key)) =>
          PageUnchanged(CURRENT_PAGE)
      ]_vars

\* C3 witness: key 2 of page 1 (display_page 2, no action, no toggle) was
\* pressed, its image was pushed and page 2 is now the current page
C3_Witness ==
    /\ PressDone /\ event.key = 2 /\ event.page = 1 /\ outcome = "ok"
    /\ CURRENT_PAGE = 2
    /\ log[1] = Effect("set_key_image", event.deck, 2, <<InAssets("next.png"), "">>, "", TRUE)

\* C4: once the dispatch of a press of the last key of the device is over,
\* whatever the current page and its configuration of that key, the device
\* was reset and then closed, and the close is the last effect.
C4_LastKeyCloses ==
    \A d \in Decks :
        (/\ PressDone /\ event.deck = d
         /\ event.key = streamdecks[d].key_count - 1) =>
        /\ ~dev[d].open
        /\ Len(log) >= 2
        /\ log[Len(log) - 1] = Effect("reset", d, NoKey, Blank, "", TRUE)
        /\ log[Len(log)] = Effect("close", d, NoKey, Blank, "", TRUE)

\* C5: every write to the device handle (set_key_image, reset, close) made
\* by load_page at startup or by the dispatch of a press is made with the
\* lock of the device held.
C5_WritesHoldLock ==
    event.kind \in {"load", "press"} =>
        \A i \in Positions(DeviceWrites) : log[i].locked

\* the positions of the log with the reset of load_page, the action, and the
\* reset and close of the exit check
NavigationAt == { i \in Positions({"reset"}) : ~log[i].locked }

ActionAt == Positions({"action"})

ExitAt == { i \in Positions({"reset", "close"}) : log[i].locked }

\* the pressed key has an icon on the page it was pressed on
PressedKeyDrawn ==
    /\ Configured(PAGES, event.page, event.key)
    /\ GetPath(KeyConfig(PAGES, event.page, event.key), "primary_icon") # EmptyPath

\* the image of the pressed key is the first effect of the dispatch
ImageFirst ==
    PressedKeyDrawn =>
        /\ Len(log) > 0
        /\ log[1].op = "set_key_image" /\ log[1].key = event.key /\ log[1].locked

\* C6: the dispatch of a press first draws the pressed key, then runs the
\* key's action, then switches to the key's display_page and loads it, then
\* makes the exit check: the action comes before the page switch.
C6_ActionBeforeNavigation ==
    event.kind = "press" =>
        /\ ImageFirst
        /\ \A a \in ActionAt : \A n \in NavigationAt : a < n
        /\ \A n \in NavigationAt : \A e \in ExitAt : n < e
        /\ \A a \in ActionAt : \A e \in ExitAt : a < e

\* C6 as amended: the dispatch of a press first draws the pressed key, then
\* switches to the key's display_page and loads it, then runs the key's
\* action, then makes the exit check: the page switch comes before the
\* action.
C6_NavigationBeforeAction ==
    event.kind = "press" =>
        /\ ImageFirst
        /\ \A n \in NavigationAt : \A a \in ActionAt : n < a
        /\ \A n \in NavigationAt : \A e \in ExitAt : n < e
        /\ \A a \in ActionAt : \A e \in ExitAt : a < e

\* C6 witness: key 3 of page 1, which has an action and a display_page, was
\* pressed: its image, the page load and the action are in the log
C6_Witness ==
    /\ event.kind = "press" /\ event.key = 3 /\ event.page = 1
    /\ log[1].op = "set_key_image" /\ log[1].key = 3
    /\ NavigationAt # {} /\ ActionAt # {}
    /\ CURRENT_PAGE = 2

\* the largest page number load_page is tried with
MaxPage == 9

PageNumbers == 0..MaxPage

LocatedOrEmpty(icon) == IF icon = EmptyPath THEN EmptyPath ELSE Located(icon)

\* C8: for every key without toggle flag, in every state the program
\* reaches, get_key_style returns for a pressed key the stored active icon
\* and label (the primary one where the active one is empty or missing) and
\* for a released key the primary icon and label.
C8_PlainKeyStyle ==
    \A i \in 1..Len(PAGES) : \A j \in 1..Len(PAGES[i].keys) :
        LET key_config == PAGES[i].keys[j]
            number == PAGES[i].page_number
            pressed == get_key_style(PAGES, number, key_config["button"], TRUE)
            released == get_key_style(PAGES, number, key_config["button"], FALSE)
        IN ~IsToggle(key_config) =>
              /\ pressed.err = "none" /\ ~pressed.empty
              /\ released.err = "none" /\ ~released.empty
              /\ pressed.icon =
                    IF GetPath(key_config, "active_icon") # EmptyPath
                    THEN Located(key_config["active_icon"])
                    ELSE LocatedOrEmpty(key_config["primary_icon"])
              /\ pressed.label =
                    IF GetLabel(key_config, "active_label") # ""
                    THEN key_config["active_label"]
                    ELSE key_config["primary_label"]
              /\ released.icon = LocatedOrEmpty(key_config["primary_icon"])
              /\ released.label = key_config["primary_label"]

\* C8 witness: after a press on page 2, key 9 of page 1 (no toggle flag)
\* still has stored active icon c.png; pressed it resolves to c.png, released
\* to its primary icon b.png and label B
C8_Witness ==
    /\ PressDone /\ event.page = 2 /\ outcome = "ok"
    /\ KeyConfig(PAGES, 1, 9)["active_icon"] = Bare("c.png")
    /\ get_key_style(PAGES, 1, 9, TRUE).icon = InAssets("c.png")
    /\ get_key_style(PAGES, 1, 9, FALSE).icon = InAssets("b.png")
    /\ get_key_style(PAGES, 1, 9, FALSE).label = "B"

\* C9: for every configured key, pressed or released, with or without toggle
\* flag, when the label slot the resolver selects is empty or missing
\* get_key_style returns the primary label, and the label it returns is not
\* empty when the primary label is not.
C9_LabelFallback ==
    \A i \in 1..Len(PAGES) : \A j \in 1..Len(PAGES[i].keys) : \A state \in BOOLEAN :
        LET key_config == PAGES[i].keys[j]
            style == get_key_style(PAGES, PAGES[i].page_number, key_config["button"], state)
        IN style.err = "none" =>
              /\ ~style.empty
              /\ GetLabel(key_config, LabelType(SlotOf(key_config, state))) = "" =>
                    style.label = GetLabel(key_config, "primary_label")
              /\ GetLabel(key_config, "primary_label") # "" => style.label # ""

\* C9 witness: toggle key 6 of page 1, which has no secondary label, was
\* pressed while it showed its primary icon: it shows its secondary icon
\* under its primary label
C9_Witness ==
    /\ event.kind = "press" /\ event.key = 6 /\ event.page = 1
    /\ GetLabel(KeyConfig(PAGES, 1, 6), "secondary_label") = ""
    /\ log[1] = Effect("set_key_image", event.deck, 6, <<InAssets("n.png"), "Menu">>, "", TRUE)
    /\ StoredStyle(KeyConfig(PAGES, 1, 6)) = <<InAssets("n.png"), "Menu">>

\* the keys without toggle flag of page number show their primary icon and label
PlainKeysPrimary(pages, number, images) ==
    \A i \in 1..Len(PagesNumbered(pages, number)[1].keys) :
        LET key_config == PagesNumbered(pages, number)[1].keys[i] IN
        (~IsToggle(key_config) /\ key_config["primary_icon"] # EmptyPath) =>
            images[key_config["button"]] =
                <<Located(key_config["primary_icon"]), key_config["primary_label"]>>

\* the keys of the device that page number has no icon for are blank
OthersBlank(pages, number, d, images) ==
    \A key \in Keys(d) :
        (~Configured(pages, number, key)
         \/ get_key_style(pages, number, key, FALSE).icon = EmptyPath) =>
        images[key] = Blank

\* C10: when load_page(p) returns for a page p of the configuration, at
\* startup with p the home page or at any later time, p is the current page
\* and every key of p that has an icon was pushed in its unpressed style
\* after the device was cleared; a key of p without toggle flag shows its
\* primary icon and label.
C10_LoadPage ==
    /\ (event.kind = "load" /\ outcome = "ok") =>
          LET number == HomePages(configFile)[1].page_number IN
          /\ CURRENT_PAGE = number
          /\ Rendered(configFile, number, log, dev[event.deck].images)
          /\ PlainKeysPrimary(configFile, number, dev[event.deck].images)
          /\ OthersBlank(configFile, number, event.deck, dev[event.deck].images)
    /\ \A d \in Decks : \A number \in PageNumbers :
          (dev[d].open /\ PageExists(PAGES, number)) =>
          \A m \in { load_page(Start, d, number) } :
              /\ m.err = "none"
              /\ m.CURRENT_PAGE = number
              /\ Rendered(PAGES, number, m.log, m.dev[d].images)
              /\ PlainKeysPrimary(PAGES, number, m.dev[d].images)
              /\ OthersBlank(PAGES, number, d, m.dev[d].images)

\* C10 witness: startup has loaded home page 1: page 1 is the current page
\* and key 0 shows a.png with the label A, pushed after the reset
C10_Witness ==
    /\ event.kind = "load" /\ outcome = "ok"
    /\ HomePages(configFile)[1].page_number = 1
    /\ CURRENT_PAGE = 1
    /\ PushedAfterReset(log, 0, <<InAssets("a.png"), "A">>)
    /\ dev[event.deck].images[0] = <<InAssets("a.png"), "A">>

\* C11: a key-release event changes nothing: no shell action is run, the
\* current page, the stored fields of every key of every page and the
\* devices (images, handles) are as before, and no effect is logged.
C11_ReleaseChangesNothing ==
    [][ event'.kind = "release" =>
          /\ PAGES' = PAGES
          /\ CURRENT_PAGE' = CURRENT_PAGE
          /\ dev' = dev
          /\ log' = << >>
          /\ disp' = "idle"
          /\ outcome' = "ok"
      ]_vars

\* C11 witness: a key was released on page 2 after the toggle key of page 1
\* had been flipped to its secondary icon, which it still stores
C11_Witness ==
    /\ event.kind = "release" /\ event.page = 2
    /\ CURRENT_PAGE = 2
    /\ dev[event.deck].open
    /\ StoredStyle(KeyConfig(PAGES, 1, 1)) = <<InAssets("off.png"), "OFF">>

InsideAction ==
    /\ event.kind = "press"
    /\ pending = <<event.deck, event.key>>
    /\ Len(log) > 0
    /\ log[Len(log)].op = "action" /\ log[Len(log)].key = event.key
    /\ ExitAt = {}
    /\ dev[event.deck].open /\ dev[event.deck].thread

\* C13: a shell action started by a press blocks the dispatch until the
\* subprocess exits: the press step that starts the action ends inside
\* subprocess.run with the exit check of that press not made; while the
\* action runs no key event is handled and nothing changes, so if the action
\* never exits no later key event is ever handled; the only step that leaves
\* this state is the exit of the action, which resumes the same dispatch.
C13_ActionBlocksDispatch ==
    /\ [](disp = "action" => InsideAction)
    /\ [][ /\ (disp = "idle" /\ event'.kind = "press" /\ Positions({"action"})' # {}) =>
                 disp' = "action"
           /\ disp = "action" =>
                 /\ event' = event
                 /\ disp' = "action" => UNCHANGED vars
                 /\ disp' = "idle" =>
                       /\ pending' = << >>
                       /\ SubSeq(log', 1, Len(log)) = log
                       /\ \A i \in (Len(log) + 1)..Len(log') :
                              log'[i].op \in {"reset", "close"}
         ]_vars

\* C13 witness: key 14 of page 2, which has an action, was pressed: the
\* action is running, the deck is still open and no reset or close was made
C13_Witness ==
    /\ disp = "action" /\ pending[2] = 14 /\ event.page = 2
    /\ log[Len(log)].cmd = "bye"
    /\ dev[pending[1]].open
    /\ ExitAt = {}

\* the exit check of the last press has reset and closed its deck
ExitClosed ==
    /\ event.kind = "press" /\ disp = "idle"
    /\ Len(log) > 0
    /\ log[Len(log)] = Effect("close", event.deck, NoKey, Blank, "", TRUE)
    /\ ~dev[event.deck].open

\* the script has run to its end
Terminated == mainpc = "done"

\* C14: once the exit button has closed the device, the process eventually
\* terminates.
C14_ExitTerminates == ExitClosed ~> Terminated

\* C14, its other half: the process does not terminate normally while a
\* device handle it opened is still open
C14_NoExitBeforeClose == Terminated => \A d \in Decks : ~dev[d].open

\* C14 for the last enumerated deck: once its exit button has closed it,
\* the script runs to its end
C14_LastDeckExitTerminates ==
    (ExitClosed /\ event.deck = Len(streamdecks)) ~> Terminated

\* the index of the first enumerated deck that is visual (0 when none is)
FirstVisual ==
    IF \E d \in Decks : streamdecks[d].visual
    THEN CHOOSE d \in Decks :
             /\ streamdecks[d].visual
             /\ \A e \in 1..(d - 1) : ~streamdecks[e].visual
    ELSE 0

\* deck d was opened, reset, painted or given a callback
ActedUpon(d) ==
    \/ dev[d].open
    \/ dev[d].thread
    \/ dev[d].callback
    \/ \E k \in Keys(d) : dev[d].images[k] # Blank
    \/ event.deck = d /\ event.kind \in {"open", "load", "register", "press", "release"}
    \/ \E i \in 1..Len(log) : log[i].deck = d

\* C15: in one run at most one device is ever opened and acted upon, the
\* first enumerated device that is visual; no other enumerated device is
\* ever opened, reset, painted or given a callback.
C15_OnlyFirstVisualDeck == \A d \in Decks : ActedUpon(d) => d = FirstVisual

\* C15, what does hold: a deck without screens is never acted upon, and at
\* any time at most one deck has a running reader thread, the one the main
\* thread's loop is at
C15_OneDeckAtATime ==
    \A d \in Decks :
        /\ ActedUpon(d) => streamdecks[d].visual /\ d <= index
        /\ dev[d].thread => d = index

RenderErrors == {"FileNotFoundError", "OSError"}

\* the exception the rendering of a style ends in ("none" when the style is
\* rendered, or is not rendered at all)
StyleError(style) ==
    IF style.err = "none" /\ ~style.empty /\ style.icon # EmptyPath
    THEN RenderError(style.icon, style.font)
    ELSE "none"

\* the keys of page number, in the order of the configuration
KeysOf(pages, number) == PagesNumbered(pages, number)[1].keys

\* the rendering of the j-th key of page number, unpressed, fails
FailsAt(pages, number, j) ==
    StyleError(get_key_style(pages, number, KeysOf(pages, number)[j]["button"], FALSE))
        # "none"

\* the positions of the keys of page number whose rendering fails
Failing(pages, number) ==
    { j \in 1..Len(KeysOf(pages, number)) : FailsAt(pages, number, j) }

\* the page the operation named by event has begun to load
LoadedPage ==
    IF event.kind = "load" THEN HomePages(configFile)[1].page_number
    ELSE KeyConfig(PAGES, event.page, event.key)["display_page"]

\* C16: when the rendering of a key fails while a page is loaded, only that
\* key's update is aborted: every other key of the page whose image can be
\* rendered is drawn.
C16_OnlyFailedKeyAborted ==
    (/\ event.kind \in {"load", "press"} /\ disp = "idle"
     /\ outcome \in RenderErrors
     /\ NavigationAt # {}) =>
    \A j \in 1..Len(KeysOf(PAGES, LoadedPage)) :
        LET button == KeysOf(PAGES, LoadedPage)[j]["button"]
            style == get_key_style(PAGES, LoadedPage, button, FALSE)
        IN (style.icon # EmptyPath /\ StyleError(style) = "none") =>
              dev[event.deck].images[button] = <<style.icon, style.label>>

\* update_key_image for a key whose rendering fails ends in the error, with
\* nothing pushed and no field of the configuration changed
FailedUpdateChangesNothing ==
    \A d \in Decks : \A i \in 1..Len(PAGES) : \A j \in 1..Len(PAGES[i].keys) :
    \A state \in BOOLEAN :
        LET number == PAGES[i].page_number
            button == PAGES[i].keys[j]["button"]
            error == StyleError(get_key_style(PAGES, number, button, state))
        IN (dev[d].open /\ error # "none") =>
              update_key_image(Start, d, number, button, state) = Raise(Start, error)

\* load_page of a page with a key whose rendering fails ends in the error
\* at the first such key: the device was reset, the keys before it are
\* drawn, that key and the keys after it are neither drawn nor changed, no
\* key is tried twice and the current page is as before
FailedLoadStops ==
    \A d \in Decks : \A number \in PageNumbers :
        (dev[d].open /\ PageExists(PAGES, number) /\ Failing(PAGES, number) # {}) =>
        \A m \in { load_page(Start, d, number) } :
            LET keys == KeysOf(PAGES, number)
                first == CHOOSE f \in Failing(PAGES, number) :
                             \A g \in Failing(PAGES, number) : f <= g
                drawn == { j \in 1..(first - 1) :
                             get_key_style(PAGES, number, keys[j]["button"], FALSE).icon
                                 # EmptyPath }
            IN /\ m.err = StyleError(get_key_style(PAGES, number, keys[first]["button"], FALSE))
               /\ m.CURRENT_PAGE = CURRENT_PAGE
               /\ m.log[1] = Effect("reset", d, NoKey, Blank, "", FALSE)
               /\ Len(m.log) = 1 + Cardinality(drawn)
               /\ \A j \in drawn : \E i \in 2..Len(m.log) :
                      m.log[i].op = "set_key_image" /\ m.log[i].key = keys[j]["button"]
               /\ \A j \in first..Len(keys) :
                      /\ KeysOf(m.PAGES, number)[j] = keys[j]
                      /\ m.dev[d].images[keys[j]["button"]] = Blank

\* C16 as amended: when the rendering of a key fails in update_key_image,
\* nothing is pushed to the device for that key, its stored active icon and
\* label stay as they were and the update is not tried again; the error is
\* not handled, so it ends the whole operation: a press of that key ends
\* with no action, no page switch and no exit check, and a page load ends at
\* the first such key, after the reset and the keys before it, with the
\* current page as before.
C16_RenderFailurePropagates ==
    /\ [](FailedUpdateChangesNothing /\ FailedLoadStops)
    /\ [][ \A key \in AllKeys :
             (/\ PressStep(key)
              /\ StyleError(get_key_style(PAGES, CURRENT_PAGE, key, TRUE)) # "none") =>
             /\ PAGES' = PAGES
             /\ CURRENT_PAGE' = CURRENT_PAGE
             /\ log' = << >>
             /\ dev'[event'.deck].images = dev[event'.deck].images
             /\ dev'[event'.deck].open
             /\ disp' = "idle"
             /\ outcome' = StyleError(get_key_style(PAGES, CURRENT_PAGE, key, TRUE))
         ]_vars

\* C16 witness: p.png, the icon of the second key of page 2, is missing and
\* a press of key 2 of page 1 began to load page 2: the device was reset,
\* key 0 of page 2 was drawn, key 1 and key 7 are blank, key 1 has no stored
\* active icon and page 1 is still the current page
C16_Witness ==
    /\ missing = {InAssets("p.png")}
    /\ PressDone /\ event.key = 2 /\ event.page = 1
    /\ outcome = "FileNotFoundError"
    /\ CURRENT_PAGE = 1
    /\ Len(log) = 3 /\ log[2].op = "reset" /\ log[3].key = 0
    /\ dev[event.deck].images[1] = Blank /\ dev[event.deck].images[7] = Blank
    /\ "active_icon" \notin DOMAIN KeyConfig(PAGES, 2, 1)

\* deck d shows the current page as the configuration stores it: a key the
\* current page configures with an icon shows the image rendered from its
\* stored active icon and label, every other key is blank
ShowsCurrentPage(d) ==
    \A key \in Keys(d) :
        IF /\ Configured(PAGES, CURRENT_PAGE, key)
           /\ get_key_style(PAGES, CURRENT_PAGE, key, FALSE).icon # EmptyPath
        THEN /\ {"active_icon", "active_label"} \subseteq
                    DOMAIN KeyConfig(PAGES, CURRENT_PAGE, key)
             /\ dev[d].images[key] =
                    render_key_image(KeyConfig(PAGES, CURRENT_PAGE, key)["active_icon"],
                                     FontLocation,
                                     KeyConfig(PAGES, CURRENT_PAGE, key)["active_label"])
        ELSE dev[d].images[key] = Blank

\* startup on deck d is over, its handle is open and no dispatch is running
IdleAfterStartup(d) ==
    /\ dev[d].open /\ dev[d].callback
    /\ disp = "idle"

\* C17: whenever the dispatcher is idle and the device is open, after
\* startup and between key events, also after an operation that ended in an
\* error, each key of the device shows the image rendered from the stored
\* active icon and label of its configuration on the current page, and every
\* key the current page does not configure with an icon is blank.
C17_DeviceShowsStoredState ==
    \A d \in Decks : IdleAfterStartup(d) => ShowsCurrentPage(d)

\* C17 where it holds: when every image can be rendered, the deck the main
\* thread waits on shows the current page as stored whenever its handle is
\* open and no dispatch is running
C17_ServedDeckShowsStoredState ==
    (mainpc = "join" /\ IdleAfterStartup(index)) => ShowsCurrentPage(index)

\* the stored active icon is a path as update_key_image stores it
StoredByUpdate(key_config) ==
    "active_icon" \in DOMAIN key_config /\ key_config["active_icon"][1] = "Assets"

\* C18: a press that leaves the current page for page P reloads P so that
\* each toggle key of P is drawn with, and still stores, the active icon and
\* label it stored before the reload, while each key of P without toggle
\* flag is drawn with and stores its primary icon and label; and a press
\* changes no stored field of a page that is neither the page it was made on
\* nor the page it switches to, so what a toggle key stored when its page
\* was left is what it stores when the page is loaded again.
C18_ToggleSurvivesNavigation ==
    [][ \A key \in AllKeys :
          PressStep(key) =>
          /\ \A i \in 1..Len(PAGES) :
                PAGES[i].page_number \notin {CURRENT_PAGE, CURRENT_PAGE'} =>
                PAGES'[i] = PAGES[i]
          /\ CURRENT_PAGE' # CURRENT_PAGE =>
                \A j \in 1..Len(KeysOf(PAGES, CURRENT_PAGE')) :
                    LET old == KeysOf(PAGES, CURRENT_PAGE')[j]
                        new == KeysOf(PAGES', CURRENT_PAGE')[j]
                        shown == dev'[event'.deck].images[old["button"]]
                        primary == <<Located(old["primary_icon"]), old["primary_label"]>>
                    IN old["primary_icon"] # EmptyPath =>
                          IF IsToggle(old)
                          THEN StoredByUpdate(old) =>
                                  /\ StoredStyle(new) = StoredStyle(old)
                                  /\ shown = StoredStyle(old)
                          ELSE /\ StoredStyle(new) = primary
                               /\ shown = primary
      ]_vars

\* C18 witness: the toggle key of page 1 was flipped to its secondary icon,
\* page 1 was left and the press of key 0 of page 2 has loaded it again: the
\* toggle key shows and stores its secondary icon, key 0 its primary icon
C18_Witness ==
    /\ PressDone /\ event.key = 0 /\ event.page = 2 /\ outcome = "ok"
    /\ CURRENT_PAGE = 1
    /\ StoredStyle(KeyConfig(PAGES, 1, 1)) = <<InAssets("off.png"), "OFF">>
    /\ dev[event.deck].images[1] = <<InAssets("off.png"), "OFF">>
    /\ KeyConfig(PAGES, 1, 1)["primary_icon"] = Bare("on.png")
    /\ dev[event.deck].images[0] = <<InAssets("a.png"), "A">>

\* the press of key ended in the failed lookup of its display_page: the
\* current page is as before, the log holds at most the image of the pressed
\* key (no reset, no action, no close), no other key of any page changed,
\* the deck is open and the other keys show what they showed
FailedWithoutNavigating(key) ==
    /\ outcome' = "IndexError"
    /\ disp' = "idle"
    /\ CURRENT_PAGE' = CURRENT_PAGE
    /\ PageExists(PAGES', CURRENT_PAGE')
    /\ \A i \in 1..Len(log') : i = 1 /\ log'[i].op = "set_key_image" /\ log'[i].key = key
    /\ \A i \in 1..Len(PAGES) : \A j \in 1..Len(PAGES[i].keys) :
          (PAGES[i].page_number # CURRENT_PAGE \/ PAGES[i].keys[j]["button"] # key) =>
          PAGES'[i].keys[j] = PAGES[i].keys[j]
    /\ dev'[event'.deck].open
    /\ \A k \in Keys(event'.deck) :
          k # key => dev'[event'.deck].images[k] = dev[event'.deck].images[k]

\* C19: a press of a key whose display_page names a page that is not in the
\* configuration fails without navigating: the current page keeps its value
\* (and names an existing page), the device is not reset, the key's action
\* is not run and the exit check is not made; only the pressed key's own
\* image and active fields may have changed.
C19_AbsentTargetFails ==
    [][ \A key \in AllKeys :
          (/\ PressStep(key)
           /\ Configured(PAGES, CURRENT_PAGE, key)
           /\ "display_page" \in DOMAIN KeyConfig(PAGES, CURRENT_PAGE, key)
           /\ ~PageExists(PAGES, KeyConfig(PAGES, CURRENT_PAGE, key)["display_page"])) =>
          FailedWithoutNavigating(key)
      ]_vars

\* C19 for the targets other than page 0
C19_NonZeroAbsentTargetFails ==
    [][ \A key \in AllKeys :
          (/\ PressStep(key)
           /\ Configured(PAGES, CURRENT_PAGE, key)
           /\ "display_page" \in DOMAIN KeyConfig(PAGES, CURRENT_PAGE, key)
           /\ KeyConfig(PAGES, CURRENT_PAGE, key)["display_page"] # 0
           /\ ~PageExists(PAGES, KeyConfig(PAGES, CURRENT_PAGE, key)["display_page"])) =>
          FailedWithoutNavigating(key)
      ]_vars

\* key 14 of page 0, which has an action and the absent display_page 9, was
\* pressed: its image was drawn, no action was run and the deck is open
C19_ExitKeyAbsentTarget ==
    /\ PressDone /\ event.key = 14 /\ event.page = 0
    /\ outcome = "IndexError"
    /\ Len(log) = 1 /\ log[1].op = "set_key_image"
    /\ dev[event.deck].open

\* C20: no key event of a deck is dispatched before the load of the home
\* page on that deck has returned: a press or release is dispatched only
\* while the main thread waits in t.join() on that deck, whose callback was
\* registered after load_page returned; a key event that comes earlier is
\* not dispatched and changes nothing; and while the main thread opens a
\* deck, loads the home page and registers the callback, no dispatch is
\* running and no deck with a running reader has a callback, so the first
\* page load does not interleave with the dispatch of a press.
C20_NoDispatchBeforeLoad ==
    [][ /\ event'.kind \in {"press", "release"} =>
              /\ mainpc = "join" /\ mainpc' = "join"
              /\ index = event'.deck
              /\ dev[index].callback
              /\ PageExists(PAGES, CURRENT_PAGE)
        /\ event'.kind \in {"open", "load", "register"} =>
              /\ disp = "idle" /\ disp' = "idle"
              /\ \A d \in Decks : ~(dev[d].thread /\ dev[d].callback)
        /\ event'.kind = "dropped" =>
              /\ mainpc \in {"config", "register"}
              /\ UNCHANGED <<PAGES, CURRENT_PAGE, dev>>
              /\ log' = << >>
      ]_vars

\* C20 witness: the home page is loaded and drawn, the callback is not yet
\* registered, and a key event that came in was not dispatched
C20_Witness ==
    /\ event.kind = "dropped"
    /\ mainpc = "register"
    /\ dev[index].open /\ dev[index].thread /\ ~dev[index].callback
    /\ PageExists(PAGES, CURRENT_PAGE)
    /\ dev[index].images[0] # Blank

====
